---- MODULE Spec2Model ----
(***************************************************************************)
(* Model of srtgo's readiness multiplexer: the pollServer registry         *)
(* (pollserver.go), its dispatch loop, and the Read/Write retry protocol   *)
(* of SrtSocket (read.go, write.go).  The SRT engine (libsrt) and the      *)
(* per-socket pollDesc are collaborators: the engine is modelled at the    *)
(* interface the spec gives it, pollDesc from the spec's ReadinessWaiter.  *)
(***************************************************************************)
EXTENDS Integers, Sequences, FiniteSets, TLC

\* ---- bounds ----
MaxHandles == 2      \* distinct SRTSOCKET values the engine hands out
MaxPds == 2          \* pollDesc objects ever constructed
MaxCloses == 2       \* pollClose calls per pollDesc
MaxBytes == 1        \* largest byte count an engine call returns
MaxCount == 3        \* cap of the per-call history counters
RegSockets == 3      \* registry runs: sockets the engine creates
RegCloses == 3       \* registry runs: pollClose calls
IOOps == 1           \* I/O runs: Read/Write calls
IONotices == 1       \* I/O runs: readable/writable notices the engine raises
IOCloses == 1        \* I/O runs: pollClose calls
PairOps == 1         \* several-socket runs: Read/Write calls
PairNotices == 1     \* several-socket runs: readable/writable notices
FairOps == 1         \* fair runs: Read/Write calls
FairNotices == 1     \* fair runs: readable/writable notices
FairCloses == 1      \* fair runs: pollClose calls
BatchOps == 2        \* batch runs: Read calls
BatchNotices == 2    \* batch runs: readable notices
LoopNotices == 1     \* loop runs: readable/writable notices
LoopCloses == 1      \* loop runs: pollClose calls
PollNotices == 1     \* poll runs: readable/writable notices
PollPolls == 2       \* poll runs: srt_epoll_uwait results kept in pollLog
RejSockets == 1      \* rejection runs: sockets the engine creates
RejCloses == 1       \* rejection runs: pollClose calls
MaxUsers == 3        \* first-use runs: threads that call pollServerCtx
MaxPackets == 2      \* ReadBatch runs: largest maxPackets argument
MaxBuf == 2          \* ReadBatch runs: largest len(buffer)
RBOps == 1           \* ReadBatch runs: ReadBatch calls
RBNotices == 1       \* ReadBatch runs: readable notices
WrapCalls == 4       \* wrapper runs: srtRecvMsg2Impl / srtSendMsg2Impl calls
MaxLoggers == 2      \* log-handler runs: threads that set or unset the handler
LogCalls == 3        \* log-handler runs: SrtSetLogHandler / SrtUnsetLogHandler calls

\* ---- program constants ----
fdlen == 512         \* capacity of the event array handed to srt_epoll_uwait

Handles == 1..MaxHandles
Pds == 1..MaxPds
Users == 1..MaxUsers
Loggers == 1..MaxLoggers
NoPd == 0
NoFd == 0

\* holders of pollServer.pollDescLock: nobody, the dispatch loop, or the
\* thread running pollOpen/pollClose on pollDesc p (named by p)
LockFree == 0
RunHolder == -1

ModeRead == "r"
ModeWrite == "w"
Modes == {ModeRead, ModeWrite}

\* SRT_EPOLL_IN / SRT_EPOLL_OUT / SRT_EPOLL_ERR bits of an event mask
EPOLL_IN == "IN"
EPOLL_OUT == "OUT"
EPOLL_ERR == "ERR"
EventBits == {EPOLL_IN, EPOLL_OUT, EPOLL_ERR}

\* srt_getsockstate results; every state in which the socket is usable
\* (INIT .. CONNECTED) is "active"
SockStates == {"active", "broken", "closing", "closed", "nonexist"}

\* error values of the engine calls and of wait
EAsyncRCV == "EAsyncRCV"
EAsyncSND == "EAsyncSND"
ETimeout == "ETimeout"
EConnLost == "EConnLost"
EPollErr == "EPollErr"
NoErr == "nil"
EngineErrs == {EAsyncRCV, EAsyncSND, ETimeout, EConnLost}

VARIABLES
  sockState,     \* engine: state of the socket behind each handle
  epollSet,      \* engine: handles subscribed in the shared epoll context
  pending,       \* engine: per handle, the event bits not yet reported
  limits,        \* the limits of the run (fixed at the start)
  nCreated,      \* sockets the engine has created
  nNotices,      \* readable/writable notices the engine has raised
  nOps,          \* Read/Write calls started
  pollDescs,     \* pollServer.pollDescs: handle -> pollDesc (NoPd = absent)
  pollDescLock,  \* pollServer.pollDescLock: "free" or its holder
  pdFd,          \* pollDesc.fd
  pdPc,          \* position of the thread opening/closing each pollDesc
  closeCalls,    \* pollClose calls made on each pollDesc
  regd,          \* history: handle registered and not yet unregistered
  ready,         \* ReadinessWaiter ready flag, per pollDesc and direction
  perr,          \* ReadinessWaiter error flag, per pollDesc and direction
  runPc,         \* position of pollServer.run
  events,        \* the batch srt_epoll_uwait returned
  eventPds,      \* processEvents: snapshot of the pollDescs of the batch
  eventTypes,    \* processEvents: snapshot of the masks of the batch
  evIdx,         \* processEvents: index of the next event to dispatch
  pollLog,       \* history: what the first srt_epoll_uwait calls returned
  op,            \* per pollDesc and direction: the Read/Write call in flight
  aborted,       \* an unrecovered panic ended the process
  once,          \* the sync.Once guarding pollServerCtxInit
  phctx,         \* the package variable phctx
  nEpolls,       \* srt_epoll_create calls made
  nLoops,        \* goroutines started on pollServer.run
  ctxPc,         \* position of each thread calling pollServerCtx
  ctxGot,        \* what pollServerCtx returned to each thread
  rb,            \* the ReadBatch call in flight
  wcall,         \* the srtRecvMsg2Impl / srtSendMsg2Impl call in flight
  logCBPtr,      \* the package variable logCBPtr
  logCBPtrLock,  \* logCBPtrLock: free or its holder
  logHandler,    \* engine: the opaque pointer of the installed log handler
  logSaved,      \* gopointer: the tokens saved and not yet Unref'd
  nSaved,        \* gopointer: tokens handed out by Save
  logPc,         \* position of each thread setting or unsetting the handler
  logPtr         \* the local ptr of each such thread

vars == <<sockState, epollSet, pending, limits, nCreated, nNotices, nOps,
          pollDescs, pollDescLock, pdFd, pdPc, closeCalls, regd, ready, perr,
          runPc, events, eventPds, eventTypes, evIdx, pollLog, op, aborted,
          once, phctx, nEpolls, nLoops, ctxPc, ctxGot, rb, wcall,
          logCBPtr, logCBPtrLock, logHandler, logSaved, nSaved, logPc, logPtr>>

engineVars == <<sockState, epollSet, pending>>
regVars == <<pollDescs, pollDescLock, pdFd, pdPc, closeCalls, regd>>
onceVars == <<once, phctx, nEpolls, nLoops, ctxPc, ctxGot>>

\* what no step of the registry, the dispatch loop or a Read/Write call
\* changes: the limits of the run, the one-time initialisation, and the
\* ReadBatch and wrapper calls, the log handler
logVars == <<logCBPtr, logCBPtrLock, logHandler, logSaved, nSaved, logPc, logPtr>>
restVars == <<limits, onceVars, rb, wcall, logVars>>
budget == <<restVars, nCreated, nNotices, nOps>>
waiterVars == <<ready, perr>>
runVars == <<runPc, events, eventPds, eventTypes, evIdx, pollLog>>
opVars == <<op>>

\* a Read/Write call: its position, the s.blocking it runs with, its result
\* (n, err), and the history of the call: engine attempts, resets and waits
\* made, the raw result io of the latest engine call, the error of the first
\* attempt, the result of wait, whether wait parked the caller, what
\* happened to the socket while the caller was parked, whether reset found a
\* flag left by an unblock made while nobody waited, and whether the
\* dispatch loop signalled the direction between the failed first attempt
\* and the call of wait
NoIO == [ret |-> 0, srterr |-> NoErr, syserr |-> 0]
IdleOp == [pc |-> "idle", blocking |-> FALSE, n |-> 0, err |-> NoErr,
           attempts |-> 0, resets |-> 0, waits |-> 0, io |-> NoIO,
           first |-> NoErr, waitErr |-> NoErr, parked |-> FALSE,
           brokeInWait |-> FALSE, closedInWait |-> FALSE,
           staleAtReset |-> FALSE, signalled |-> FALSE]

\* history counters stop counting at MaxCount
Bump(x) == IF x < MaxCount THEN x + 1 ELSE x

\* the nil unsafe.Pointer; the tokens gopointer.Save hands out are 1, 2, ...
NilPtr == 0

\* the nil *pollServer, and the pollServer that pollServerCtxInit builds
\* around the epoll id eid (lines 27-30)
NilCtx == [srtEpollDescr |-> 0, pollDescs |-> "nil"]
NewCtx(eid) == [srtEpollDescr |-> eid, pollDescs |-> "map"]

\* an error value: the engine's code e and the system error code it wraps
\* (0: none); SRTErrno(code) is the bare engine error, nil the nil error
SRTErrno(code) == [e |-> code, eSys |-> 0]
NilError == [e |-> NoErr, eSys |-> 0]

\* a ReadBatch call: its position, its pollDesc, s.blocking, the arguments
\* maxPackets and len(buffer), the locals offset, packetsRead, totalBytes,
\* the error it returns, and the history of the call: engine calls and waits
\* made, packetsRead when wait was called, the errors of the first and of
\* the latest engine call, the result of wait
IdleBatch == [pc |-> "idle", pd |-> NoPd, blocking |-> FALSE, maxPackets |-> 0,
              buflen |-> 0, offset |-> 0, packetsRead |-> 0, totalBytes |-> 0,
              err |-> NoErr, attempts |-> 0, waits |-> 0, waitAt |-> 0,
              first |-> NoErr, last |-> NoErr, waitErr |-> NoErr]

\* a wrapper call: what the engine call yielded (io) and what the wrapper
\* returned (n, err)
IdleCall == [pc |-> "idle", kind |-> "recv", io |-> NoIO, n |-> 0, err |-> NilError]

\* the state once the process is set up; started tells whether the first
\* use of the registry (pollServerCtx) has already happened
InitState(b, started) ==
  /\ sockState = [h \in Handles |-> IF h <= b.live THEN "active" ELSE "nonexist"]
  /\ epollSet = {}
  /\ pending = [h \in Handles |-> {}]
  /\ limits = b
  /\ nCreated = 0
  /\ nNotices = 0
  /\ nOps = 0
  /\ pollDescs = [h \in Handles |-> NoPd]
  /\ pollDescLock = LockFree
  /\ pdFd = [p \in Pds |-> NoFd]
  /\ pdPc = [p \in Pds |-> "new"]
  /\ closeCalls = [p \in Pds |-> 0]
  /\ regd = [h \in Handles |-> FALSE]
  /\ ready = [p \in Pds |-> [m \in Modes |-> FALSE]]
  /\ perr = [p \in Pds |-> [m \in Modes |-> FALSE]]
  /\ runPc = IF started THEN "uwait" ELSE "unstarted"
  /\ events = <<>>
  /\ eventPds = <<>>
  /\ eventTypes = <<>>
  /\ evIdx = 1
  /\ pollLog = <<>>
  /\ op = [p \in Pds |-> [m \in Modes |-> IdleOp]]
  /\ aborted = FALSE
  /\ once = IF started THEN "done" ELSE "fresh"
  /\ phctx = IF started THEN NewCtx(1) ELSE NilCtx
  /\ nEpolls = IF started THEN 1 ELSE 0
  /\ nLoops = IF started THEN 1 ELSE 0
  /\ ctxPc = [t \in Users |-> "idle"]
  /\ ctxGot = [t \in Users |-> NilCtx]
  /\ rb = IdleBatch
  /\ wcall = IdleCall
  /\ logCBPtr = NilPtr
  /\ logCBPtrLock = LockFree
  /\ logHandler = NilPtr
  /\ logSaved = {}
  /\ nSaved = 0
  /\ logPc = [t \in Loggers |-> "idle"]
  /\ logPtr = [t \in Loggers |-> NilPtr]

\* the state after the first use of the registry: context created, dispatch
\* loop running
InitWith(b) == InitState(b, TRUE)

\* ------------------------------------------------------------------------
\* The SRT engine (external collaborator)
\* ------------------------------------------------------------------------

\* the engine creates a socket; a handle value is free again once the socket
\* that had it no longer exists
EngineCreate(h) ==
  /\ ~aborted
  /\ sockState[h] = "nonexist"
  /\ nCreated < limits.sockets
  /\ sockState' = [sockState EXCEPT ![h] = "active"]
  /\ nCreated' = nCreated + 1
  /\ UNCHANGED <<epollSet, pending, restVars, nNotices, nOps, regVars, waiterVars, runVars, opVars, aborted>>

\* a Read/Write call parked in wait on the pollDesc registered for h (and
\* not being unregistered) sees the socket break
MarkBroken(h) ==
  [p \in Pds |-> [m \in Modes |->
     IF pdFd[p] = h /\ pollDescs[h] = p /\ pdPc[p] = "open"
        /\ op[p][m].pc = "blocked"
     THEN [op[p][m] EXCEPT !.brokeInWait = TRUE]
     ELSE op[p][m]]]

\* the connection breaks: the engine raises the error event for a subscribed
\* socket and drops the socket from the context
EngineBreak(h) ==
  /\ ~aborted
  /\ sockState[h] = "active"
  /\ sockState' = [sockState EXCEPT ![h] = "broken"]
  /\ pending' = [pending EXCEPT ![h] = IF h \in epollSet THEN @ \cup {EPOLL_ERR} ELSE @]
  /\ epollSet' = epollSet \ {h}
  /\ op' = MarkBroken(h)
  /\ UNCHANGED <<budget, regVars, waiterVars, runVars, aborted>>

\* srt_close by the socket's owner: the engine drops the subscription and
\* its unreported notices
EngineClose(h) ==
  /\ ~aborted
  /\ sockState[h] \in {"active", "broken"}
  /\ sockState' = [sockState EXCEPT ![h] = IF @ = "active" THEN "closing" ELSE "closed"]
  /\ epollSet' = epollSet \ {h}
  /\ pending' = [pending EXCEPT ![h] = IF sockState[h] = "active" THEN {} ELSE @]
  /\ UNCHANGED <<budget, regVars, waiterVars, runVars, opVars, aborted>>

\* the engine's garbage collection of broken and closed sockets
EngineReap(h) ==
  /\ ~aborted
  /\ sockState[h] \in {"broken", "closing", "closed"}
  /\ sockState' = [sockState EXCEPT ![h] = IF @ = "closed" THEN "nonexist" ELSE "closed"]
  /\ UNCHANGED <<epollSet, pending, budget, regVars, waiterVars, runVars, opVars, aborted>>

\* the socket becomes readable or writable: edge-triggered notice
EngineNotify(h, bit) ==
  /\ ~aborted
  /\ bit \in {EPOLL_IN, EPOLL_OUT}
  /\ sockState[h] = "active"
  /\ h \in epollSet
  /\ bit \notin pending[h]
  /\ nNotices < limits.notices
  /\ nNotices' = nNotices + 1
  /\ pending' = [pending EXCEPT ![h] = @ \cup {bit}]
  /\ UNCHANGED <<sockState, epollSet, restVars, nCreated, nOps, regVars, waiterVars, runVars, opVars, aborted>>

\* srt_epoll_add_usock: rejected when the handle is already subscribed or is
\* not a usable socket
AddUsockOk(h) == sockState[h] = "active" /\ h \notin epollSet

\* srt_epoll_remove_usock of a subscribed handle succeeds; for a handle that
\* is not subscribed the interface allows success (nothing to do) and failure
RemoveUsockResults(h) == IF h \in epollSet THEN {0} ELSE {0, -1}

\* ------------------------------------------------------------------------
\* pollServer: pollOpen / pollClose
\* ------------------------------------------------------------------------

Broken(st) == st \in {"broken", "closing", "closed", "nonexist"}

\* a pollOpen that calls srt_epoll_add_usock before it takes the lock
PollOpenAddUnlocked(p, h) ==
  /\ ~aborted
  /\ pdPc[p] = "new"
  /\ \A q \in Pds : q < p => pdPc[q] # "new"
  /\ p <= limits.pds
  /\ pollDescLock = LockFree
  /\ UNCHANGED pollDescLock
  /\ pdFd' = [pdFd EXCEPT ![p] = h]
  /\ IF AddUsockOk(h)
     THEN /\ epollSet' = epollSet \cup {h}
          /\ pdPc' = [pdPc EXCEPT ![p] = "open_added"]
          /\ UNCHANGED aborted
     ELSE /\ aborted' = TRUE
          /\ pdPc' = [pdPc EXCEPT ![p] = "panicked"]
          /\ UNCHANGED epollSet
  /\ UNCHANGED <<sockState, pending, budget, pollDescs, closeCalls, regd,
                 waiterVars, runVars, opVars>>

\* pollOpen, lines 45-49, for a pollDesc with pd.fd = h: take the lock,
\* srt_epoll_add_usock, panic on -1 (with the lock held)
PollOpenAdd(p, h) ==
  /\ ~aborted
  /\ pdPc[p] = "new"
  /\ \A q \in Pds : q < p => pdPc[q] # "new"
  /\ p <= limits.pds
  /\ pollDescLock = LockFree
  /\ pollDescLock' = p
  /\ pdFd' = [pdFd EXCEPT ![p] = h]
  /\ IF AddUsockOk(h)
     THEN /\ epollSet' = epollSet \cup {h}
          /\ pdPc' = [pdPc EXCEPT ![p] = "open_added"]
          /\ UNCHANGED aborted
     ELSE /\ aborted' = TRUE
          /\ pdPc' = [pdPc EXCEPT ![p] = "panicked"]
          /\ UNCHANGED epollSet
  /\ UNCHANGED <<sockState, pending, budget, pollDescs, closeCalls, regd,
                 waiterVars, runVars, opVars>>

\* the map insertion of pollOpen, line 50
MapPut(map, p) == [map EXCEPT ![pdFd[p]] = p]

\* pollOpen, lines 50-52: insert into the map, unlock, return
PollOpenPut(p) ==
  /\ ~aborted
  /\ pdPc[p] = "open_added"
  /\ pollDescs' = MapPut(pollDescs, p)
  /\ pollDescLock' = LockFree
  /\ pdPc' = [pdPc EXCEPT ![p] = "open"]
  /\ regd' = [regd EXCEPT ![pdFd[p]] = TRUE]
  /\ UNCHANGED <<engineVars, budget, pdFd, closeCalls, waiterVars,
                 runVars, opVars, aborted>>

\* a Read/Write call blocked in wait on p sees p being unregistered
MarkClosed(p) ==
  [op EXCEPT ![p] = [m \in Modes |->
     IF op[p][m].pc = "blocked"
     THEN [op[p][m] EXCEPT !.closedInWait = TRUE]
     ELSE op[p][m]]]

\* pollClose, line 57: does the socket state make pollClose return at once
CloseReturnsEarly(st) == Broken(st)

\* pollClose calls made so far, and those of pollDesc p that have returned
TotalCloses == LET RECURSIVE Sum(_)
                   Sum(S) == IF S = {} THEN 0
                             ELSE LET q == CHOOSE x \in S : TRUE
                                  IN closeCalls[q] + Sum(S \ {q})
               IN Sum(Pds)
closeRet(p) ==
  IF pdPc[p] \in {"close_remove", "close_delete"} THEN closeCalls[p] - 1 ELSE closeCalls[p]

\* pollClose, lines 55-59: read the socket state, return if the engine has
\* dropped the socket
PollCloseState(p) ==
  /\ ~aborted
  /\ pdPc[p] = "open"
  /\ closeCalls[p] < MaxCloses
  /\ TotalCloses < limits.closes
  /\ closeCalls' = [closeCalls EXCEPT ![p] = @ + 1]
  /\ op' = MarkClosed(p)
  /\ IF CloseReturnsEarly(sockState[pdFd[p]])
     THEN /\ regd' = [regd EXCEPT ![pdFd[p]] = FALSE]
          /\ UNCHANGED pdPc
     ELSE /\ pdPc' = [pdPc EXCEPT ![p] = "close_remove"]
          /\ UNCHANGED regd
  /\ UNCHANGED <<engineVars, budget, pollDescs, pollDescLock, pdFd, waiterVars,
                 runVars, aborted>>

\* a pollClose that deletes the map entry before it calls
\* srt_epoll_remove_usock
PollCloseRemoveDeletes(p) ==
  /\ ~aborted
  /\ pdPc[p] = "close_remove"
  /\ pollDescs' = [pollDescs EXCEPT ![pdFd[p]] = NoPd]
  /\ \E ret \in RemoveUsockResults(pdFd[p]) :
       IF ret = -1
       THEN /\ aborted' = TRUE
            /\ pdPc' = [pdPc EXCEPT ![p] = "panicked"]
            /\ UNCHANGED <<epollSet, pending>>
       ELSE /\ epollSet' = epollSet \ {pdFd[p]}
            /\ pending' = [pending EXCEPT ![pdFd[p]] = IF pdFd[p] \in epollSet THEN {} ELSE @]
            /\ pdPc' = [pdPc EXCEPT ![p] = "close_delete"]
            /\ UNCHANGED aborted
  /\ UNCHANGED <<sockState, budget, pollDescLock, pdFd, closeCalls,
                 regd, waiterVars, runVars, opVars>>

\* pollClose, lines 60-63: srt_epoll_remove_usock, panic on -1
PollCloseRemove(p) ==
  /\ ~aborted
  /\ pdPc[p] = "close_remove"
  /\ \E ret \in RemoveUsockResults(pdFd[p]) :
       IF ret = -1
       THEN /\ aborted' = TRUE
            /\ pdPc' = [pdPc EXCEPT ![p] = "panicked"]
            /\ UNCHANGED <<epollSet, pending>>
       ELSE /\ epollSet' = epollSet \ {pdFd[p]}
            /\ pending' = [pending EXCEPT ![pdFd[p]] = IF pdFd[p] \in epollSet THEN {} ELSE @]
            /\ pdPc' = [pdPc EXCEPT ![p] = "close_delete"]
            /\ UNCHANGED aborted
  /\ UNCHANGED <<sockState, budget, pollDescs, pollDescLock, pdFd, closeCalls,
                 regd, waiterVars, runVars, opVars>>

\* pollClose, lines 64-67: delete the map entry under the lock, return
PollCloseDelete(p) ==
  /\ ~aborted
  /\ pdPc[p] = "close_delete"
  /\ pollDescLock = LockFree
  /\ pollDescs' = [pollDescs EXCEPT ![pdFd[p]] = NoPd]
  /\ pdPc' = [pdPc EXCEPT ![p] = "open"]
  /\ regd' = [regd EXCEPT ![pdFd[p]] = FALSE]
  /\ UNCHANGED <<engineVars, budget, pollDescLock, pdFd, closeCalls, waiterVars,
                 runVars, opVars, aborted>>

\* ------------------------------------------------------------------------
\* ReadinessWaiter (pollDesc): reset / wait / unblock
\* ------------------------------------------------------------------------

\* reset(mode): clear the ready and the error flag of the direction
ResetFlags(flags, p, m) == [flags EXCEPT ![p][m] = FALSE]

\* unblock(mode, isError, isReady), for a set of calls <<mode, isError,
\* isReady>> on pollDesc p: each sets the flag it names; a caller blocked
\* in wait(mode) is released by the flag
UnblockErr(flags, p, calls) ==
  [flags EXCEPT ![p] = [m \in Modes |-> @[m] \/ \E c \in calls : c[1] = m /\ c[2]]]
UnblockReady(flags, p, calls) ==
  [flags EXCEPT ![p] = [m \in Modes |-> @[m] \/ \E c \in calls : c[1] = m /\ c[3]]]

\* what a wait(mode) that need not (or no longer) block can return: success
\* on the ready flag, the fatal wait error on the error flag
WaitResults(p, m) ==
  (IF ready[p][m] THEN {NoErr} ELSE {}) \cup (IF perr[p][m] THEN {EPollErr} ELSE {})

\* ------------------------------------------------------------------------
\* pollServer.run / processEvents
\* ------------------------------------------------------------------------

RECURSIVE BatchOf(_)
\* the events srt_epoll_uwait reports for the handles in S, by handle
BatchOf(S) ==
  IF S = {} THEN <<>>
  ELSE LET h == CHOOSE x \in S : \A y \in S : x <= y
       IN <<[fd |-> h, events |-> pending[h]]>> \o BatchOf(S \ {h})

ReadyHandles == {h \in Handles : pending[h] # {}}

\* the result of a srt_epoll_uwait call, kept for the first limits.polls
\* calls: "zero" (res == 0), "timeout" and "error" (res == -1), "events"
LogPoll(kind) ==
  IF Len(pollLog) < limits.polls THEN Append(pollLog, kind) ELSE pollLog

\* a run that hands only the first event of the batch to processEvents
MinOne(a, b) == 1

Min(a, b) == IF a < b THEN a ELSE b

\* run, lines 83-86: srt_epoll_uwait returns 0
RunTimeout ==
  /\ ~aborted
  /\ runPc = "uwait"
  /\ ReadyHandles = {}
  /\ pollLog' = LogPoll("zero")
  /\ UNCHANGED <<engineVars, budget, regVars, waiterVars, runPc, events,
                 eventPds, eventTypes, evIdx, opVars, aborted>>

\* a run that carries on after every error of srt_epoll_uwait
RunErrorContinue(errno) ==
  /\ ~aborted
  /\ runPc = "uwait"
  /\ pollLog' = LogPoll(IF errno = ETimeout THEN "timeout" ELSE "error")
  /\ UNCHANGED <<engineVars, budget, regVars, waiterVars, runPc, events,
                 eventPds, eventTypes, evIdx, opVars, aborted>>

\* run, lines 87-93: srt_epoll_uwait returns -1; SRT_ETIMEOUT continues, any
\* other error panics
RunError(errno) ==
  /\ ~aborted
  /\ runPc = "uwait"
  /\ pollLog' = LogPoll(IF errno = ETimeout THEN "timeout" ELSE "error")
  /\ IF errno = ETimeout
     THEN UNCHANGED <<runPc, aborted>>
     ELSE /\ runPc' = "panicked"
          /\ aborted' = TRUE
  /\ UNCHANGED <<engineVars, budget, regVars, waiterVars, events, eventPds,
                 eventTypes, evIdx, opVars>>

\* run, lines 94-101: srt_epoll_uwait returns res > 0 events
RunEvents(S) ==
  /\ ~aborted
  /\ runPc = "uwait"
  /\ S # {}
  /\ S \subseteq ReadyHandles
  /\ LET res == Cardinality(S)
         max == Min(res, fdlen)
     IN events' = SubSeq(BatchOf(S), 1, max)
  /\ pending' = [h \in Handles |-> IF h \in S THEN {} ELSE pending[h]]
  /\ runPc' = "snapshot"
  /\ eventPds' = <<>>
  /\ eventTypes' = <<>>
  /\ evIdx' = 1
  /\ pollLog' = LogPoll("events")
  /\ UNCHANGED <<sockState, epollSet, budget, regVars, waiterVars, opVars, aborted>>

\* a lookup that takes the first entry of the map, whatever the handle
LookupPdAny(fd) ==
  IF \E h \in Handles : pollDescs[h] # NoPd
  THEN pollDescs[CHOOSE h \in Handles : pollDescs[h] # NoPd /\ \A g \in Handles : pollDescs[g] # NoPd => h <= g]
  ELSE NoPd

\* processEvents, line 114: the pollDesc the map holds for an event's handle
LookupPd(fd) == pollDescs[fd]

\* a processEvents that keeps the lock until it returns
LockAfterSnapshotHeld == RunHolder

\* processEvents, line 119: the holder of the lock once the snapshot is taken
LockAfterSnapshot == LockFree

\* a processEvents that reads the map without taking the lock
ProcSnapshotNoLock ==
  /\ ~aborted
  /\ runPc = "snapshot"
  /\ UNCHANGED pollDescLock
  /\ eventPds' = [i \in 1..Len(events) |-> LookupPd(events[i].fd)]
  /\ eventTypes' = [i \in 1..Len(events) |->
                      IF LookupPd(events[i].fd) # NoPd THEN events[i].events ELSE {}]
  /\ runPc' = "dispatch"
  /\ UNCHANGED <<engineVars, budget, pollDescs, pdFd, pdPc, closeCalls,
                 regd, waiterVars, events, evIdx, pollLog, opVars, aborted>>

\* processEvents, lines 109-119: lock, snapshot the pollDescs and masks of
\* the batch, unlock
ProcSnapshot ==
  /\ ~aborted
  /\ runPc = "snapshot"
  /\ pollDescLock = LockFree
  /\ pollDescLock' = LockAfterSnapshot
  /\ eventPds' = [i \in 1..Len(events) |-> LookupPd(events[i].fd)]
  /\ eventTypes' = [i \in 1..Len(events) |->
                      IF LookupPd(events[i].fd) # NoPd THEN events[i].events ELSE {}]
  /\ runPc' = "dispatch"
  /\ UNCHANGED <<engineVars, budget, pollDescs, pdFd, pdPc, closeCalls,
                 regd, waiterVars, events, evIdx, pollLog, opVars, aborted>>

\* a dispatch that, for an error event, also sends the ready signals of the
\* readable and writable bits
UnblockCallsErrAndReady(eventFlags) ==
  (IF EPOLL_ERR \in eventFlags
   THEN {<<ModeRead, TRUE, FALSE>>, <<ModeWrite, TRUE, FALSE>>} ELSE {})
    \cup (IF EPOLL_IN \in eventFlags THEN {<<ModeRead, FALSE, TRUE>>} ELSE {})
    \cup (IF EPOLL_OUT \in eventFlags THEN {<<ModeWrite, FALSE, TRUE>>} ELSE {})

\* a dispatch that signals both directions ready on either ready bit
UnblockCallsAnyReady(eventFlags) ==
  IF EPOLL_ERR \in eventFlags
  THEN {<<ModeRead, TRUE, FALSE>>, <<ModeWrite, TRUE, FALSE>>}
  ELSE IF eventFlags \cap {EPOLL_IN, EPOLL_OUT} # {}
       THEN {<<ModeRead, FALSE, TRUE>>, <<ModeWrite, FALSE, TRUE>>}
       ELSE {}

\* a dispatch that signals an error to the read direction only
UnblockCallsErrRead(eventFlags) ==
  IF EPOLL_ERR \in eventFlags
  THEN {<<ModeRead, TRUE, FALSE>>}
  ELSE (IF EPOLL_IN \in eventFlags THEN {<<ModeRead, FALSE, TRUE>>} ELSE {})
         \cup (IF EPOLL_OUT \in eventFlags THEN {<<ModeWrite, FALSE, TRUE>>} ELSE {})

\* processEvents, lines 128-138: the unblock calls made for one event
UnblockCalls(eventFlags) ==
  IF EPOLL_ERR \in eventFlags
  THEN {<<ModeRead, TRUE, FALSE>>, <<ModeWrite, TRUE, FALSE>>}
  ELSE (IF EPOLL_IN \in eventFlags THEN {<<ModeRead, FALSE, TRUE>>} ELSE {})
         \cup (IF EPOLL_OUT \in eventFlags THEN {<<ModeWrite, FALSE, TRUE>>} ELSE {})

\* a Read/Write call of pollDesc p that has made its failed first attempt
\* and has not yet called wait sees the unblock calls made on its direction
MarkSignalled(p, calls) ==
  [op EXCEPT ![p] = [m \in Modes |->
     IF op[p][m].pc \in {"reset", "wait"} /\ \E c \in calls : c[1] = m
     THEN [op[p][m] EXCEPT !.signalled = TRUE]
     ELSE op[p][m]]]

\* a dispatch whose unblock hands the signal over to the waiter itself: it
\* blocks until a caller is parked in every direction it signals
ProcDispatchSync ==
  /\ ~aborted
  /\ runPc = "dispatch"
  /\ evIdx <= Len(eventPds)
  /\ eventPds[evIdx] # NoPd =>
       \A c \in UnblockCalls(eventTypes[evIdx]) :
         op[eventPds[evIdx]][c[1]].pc = "blocked"
  /\ LET pd == eventPds[evIdx]
         eventFlags == eventTypes[evIdx]
     IN IF pd = NoPd
        THEN UNCHANGED <<waiterVars, opVars>>
        ELSE /\ perr' = UnblockErr(perr, pd, UnblockCalls(eventFlags))
             /\ ready' = UnblockReady(ready, pd, UnblockCalls(eventFlags))
             /\ op' = MarkSignalled(pd, UnblockCalls(eventFlags))
  /\ IF evIdx = Len(eventPds)
     THEN /\ runPc' = "uwait"
          /\ events' = <<>>
          /\ eventPds' = <<>>
          /\ eventTypes' = <<>>
          /\ evIdx' = 1
     ELSE /\ evIdx' = evIdx + 1
          /\ UNCHANGED <<runPc, events, eventPds, eventTypes>>
  /\ UNCHANGED <<engineVars, budget, regVars, pollLog, aborted>>

\* a dispatch that gives up the rest of the batch at the first event
\* without a pollDesc
ProcDispatchStopAtNil ==
  /\ ~aborted
  /\ runPc = "dispatch"
  /\ evIdx <= Len(eventPds)
  /\ LET pd == eventPds[evIdx]
         eventFlags == eventTypes[evIdx]
     IN IF pd = NoPd
        THEN UNCHANGED <<waiterVars, opVars>>
        ELSE /\ perr' = UnblockErr(perr, pd, UnblockCalls(eventFlags))
             /\ ready' = UnblockReady(ready, pd, UnblockCalls(eventFlags))
             /\ op' = MarkSignalled(pd, UnblockCalls(eventFlags))
  /\ IF evIdx = Len(eventPds) \/ eventPds[evIdx] = NoPd
     THEN /\ runPc' = "uwait"
          /\ events' = <<>>
          /\ eventPds' = <<>>
          /\ eventTypes' = <<>>
          /\ evIdx' = 1
     ELSE /\ evIdx' = evIdx + 1
          /\ UNCHANGED <<runPc, events, eventPds, eventTypes>>
  /\ UNCHANGED <<engineVars, budget, regVars, pollLog, aborted>>

\* processEvents, lines 122-139: dispatch the next event of the batch
ProcDispatch ==
  /\ ~aborted
  /\ runPc = "dispatch"
  /\ evIdx <= Len(eventPds)
  /\ LET pd == eventPds[evIdx]
         eventFlags == eventTypes[evIdx]
     IN IF pd = NoPd
        THEN UNCHANGED <<waiterVars, opVars>>
        ELSE /\ perr' = UnblockErr(perr, pd, UnblockCalls(eventFlags))
             /\ ready' = UnblockReady(ready, pd, UnblockCalls(eventFlags))
             /\ op' = MarkSignalled(pd, UnblockCalls(eventFlags))
  /\ IF evIdx = Len(eventPds)
     THEN /\ runPc' = "uwait"
          /\ events' = <<>>
          /\ eventPds' = <<>>
          /\ eventTypes' = <<>>
          /\ evIdx' = 1
     ELSE /\ evIdx' = evIdx + 1
          /\ UNCHANGED <<runPc, events, eventPds, eventTypes>>
  /\ UNCHANGED <<engineVars, budget, regVars, pollLog, aborted>>

\* ------------------------------------------------------------------------
\* SrtSocket.Read / SrtSocket.Write
\* ------------------------------------------------------------------------

\* srt_recvmsg2 / srt_sendmsg2 on handle h as Read and Write see it: a byte
\* count, or -1 with the engine's error code (no system error with it); a
\* socket that is not usable only fails
EngineIO(h) ==
  IF sockState[h] = "active"
  THEN {[ret |-> k, srterr |-> NoErr, syserr |-> 0] : k \in 1..MaxBytes}
         \cup {[ret |-> -1, srterr |-> e, syserr |-> 0] : e \in EngineErrs}
  ELSE {[ret |-> -1, srterr |-> EConnLost, syserr |-> 0]}

\* srt_recvmsg2_wrapped / srt_sendmsg2_wrapped, lines 7-14: the engine call
\* returns ret; the engine's last error lasterror and the system error
\* syserror are fetched only when ret < 0, the Go variables stay 0 otherwise
Msg2Wrapped(ret, lasterror, syserror) ==
  IF ret < 0
  THEN [ret |-> ret, srterr |-> lasterror, syserr |-> syserror]
  ELSE [ret |-> ret, srterr |-> NoErr, syserr |-> 0]

\* SRTErrno.wrapSysErr: the error that carries the engine's code and wraps
\* the system error code
wrapSysErr(srterror, errno) == [srterror EXCEPT !.eSys = errno]

\* srtRecvMsg2Impl / srtSendMsg2Impl, lines 24-37: (n, err) of one engine
\* call, err as an error value.  Line 31 calls srterror.wrapSysErr and
\* drops what it returns; line 33 returns srterror itself
srtMsg2ImplValue(r) ==
  IF r.ret < 0
  THEN LET srterror == SRTErrno(r.srterr)
           dropped == IF r.syserr < 0 THEN wrapSysErr(srterror, r.syserr) ELSE srterror
       IN [n |-> 0, err |-> srterror]
  ELSE [n |-> r.ret, err |-> NilError]

\* srtRecvMsg2Impl / srtSendMsg2Impl: (n, err) of one engine call, err as
\* the engine code Read, Write and ReadBatch compare it by
srtMsg2Impl(r) ==
  LET v == srtMsg2ImplValue(r) IN [n |-> v.n, err |-> v.err.e]

\* the would-block error Read (EAsyncRCV) and Write (EAsyncSND) test for
OwnAsync(m) == IF m = ModeRead THEN EAsyncRCV ELSE EAsyncSND

\* a socket facade that returns whatever the first attempt yields
AfterFirstNoWait(blocking, m, res) == "done"

\* a socket facade that waits on the would-block error of either direction
AfterFirstAnyAsync(blocking, m, res) ==
  IF res.err = NoErr \/ blocking \/ res.err \notin {EAsyncRCV, EAsyncSND}
  THEN "done"
  ELSE "reset"

\* a socket facade that treats every socket as non-blocking
AfterFirstNoMode(blocking, m, res) ==
  IF res.err = NoErr \/ res.err # OwnAsync(m) THEN "done" ELSE "reset"

\* Read/Write, lines 45-50: what follows the first attempt: the return of
\* line 46, or (non-blocking mode only, line 50) reset and wait
AfterFirst(blocking, m, res) ==
  IF res.err = NoErr \/ blocking \/ res.err # OwnAsync(m)
  THEN "done"
  ELSE IF ~blocking THEN "reset" ELSE "done"

Registered(p) == pdPc[p] \in {"open", "close_remove", "close_delete"}

\* the Read/Write calls that have started and not yet returned
InFlight == {pm \in Pds \X Modes : op[pm[1]][pm[2]].pc # "idle"}

\* Read/Write, lines 42-47: the fast path
OpAttempt(p, m) ==
  /\ ~aborted
  /\ Registered(p)
  /\ closeCalls[p] = 0
  /\ op[p][m].pc = "idle"
  /\ nOps < limits.ops
  /\ Cardinality(InFlight) < limits.callers
  /\ nOps' = nOps + 1
  /\ \E r \in EngineIO(pdFd[p]), blocking \in BOOLEAN :
       LET res == srtMsg2Impl(r)
           o == [IdleOp EXCEPT !.attempts = 1, !.io = r, !.first = res.err,
                               !.blocking = blocking]
       IN op' = [op EXCEPT ![p][m] =
                   IF AfterFirst(blocking, m, res) = "done"
                   THEN [o EXCEPT !.pc = "done", !.n = res.n, !.err = res.err]
                   ELSE [o EXCEPT !.pc = "reset"]]
  /\ UNCHANGED <<engineVars, restVars, nCreated, nNotices, regVars, waiterVars,
                 runVars, aborted>>

\* Read/Write, line 51: s.pd.reset(mode)
OpReset(p, m) ==
  /\ ~aborted
  /\ op[p][m].pc = "reset"
  /\ ready' = ResetFlags(ready, p, m)
  /\ perr' = ResetFlags(perr, p, m)
  /\ op' = [op EXCEPT ![p][m].pc = "wait", ![p][m].resets = Bump(@),
                       ![p][m].staleAtReset = ready[p][m] \/ perr[p][m]]
  /\ UNCHANGED <<engineVars, budget, regVars, runVars, aborted>>

\* a call that does not look at the result of wait
AfterWaitUnchecked(o, waitErr) == [o EXCEPT !.pc = "retry"]

\* Read/Write, lines 52-55, once wait has returned waitErr
AfterWait(o, waitErr) ==
  IF waitErr # NoErr
  THEN [o EXCEPT !.pc = "done", !.n = 0, !.err = waitErr]
  ELSE [o EXCEPT !.pc = "retry"]

\* a wait that parks the caller before it looks at the flags
OpWaitParkFirst(p, m) ==
  /\ ~aborted
  /\ op[p][m].pc = "wait"
  /\ op' = [op EXCEPT ![p][m] = [@ EXCEPT !.pc = "blocked", !.parked = TRUE, !.waits = Bump(@)]]
  /\ UNCHANGED <<engineVars, budget, regVars, waiterVars, runVars, aborted>>

\* Read/Write, line 52: s.pd.wait(mode) is called; it returns at once when a
\* flag is set and parks the caller otherwise
OpWait(p, m) ==
  /\ ~aborted
  /\ op[p][m].pc = "wait"
  /\ LET o == [op[p][m] EXCEPT !.waits = Bump(@)]
     IN IF WaitResults(p, m) # {}
        THEN \E w \in WaitResults(p, m) :
               op' = [op EXCEPT ![p][m] = AfterWait([o EXCEPT !.waitErr = w], w)]
        ELSE op' = [op EXCEPT ![p][m] = [o EXCEPT !.pc = "blocked", !.parked = TRUE]]
  /\ UNCHANGED <<engineVars, budget, regVars, waiterVars, runVars, aborted>>

\* wait(mode) returns to a parked caller once unblock has set a flag
OpWake(p, m) ==
  /\ ~aborted
  /\ op[p][m].pc = "blocked"
  /\ \E w \in WaitResults(p, m) :
       op' = [op EXCEPT ![p][m] = AfterWait([op[p][m] EXCEPT !.waitErr = w], w)]
  /\ UNCHANGED <<engineVars, budget, regVars, waiterVars, runVars, aborted>>

\* wait(mode) returns the timeout error when the caller's deadline passes
\* (a caller without a deadline is one whose deadline never passes)
OpWaitTimeout(p, m) ==
  /\ ~aborted
  /\ op[p][m].pc = "blocked"
  /\ op' = [op EXCEPT ![p][m] = AfterWait([op[p][m] EXCEPT !.waitErr = ETimeout], ETimeout)]
  /\ UNCHANGED <<engineVars, budget, regVars, waiterVars, runVars, aborted>>

\* a call that keeps waiting and retrying while the engine reports would-block
AfterRetryLoop(o, m, res) ==
  IF res.err = OwnAsync(m)
  THEN [o EXCEPT !.pc = "reset"]
  ELSE [o EXCEPT !.pc = "done", !.n = res.n, !.err = res.err]

\* a call whose second attempt assigns shadowed variables: the first
\* attempt's result is returned
AfterRetryShadow(o, m, res) == [o EXCEPT !.pc = "done", !.n = 0, !.err = o.first]

\* Read/Write, lines 56-59: what the call does with the second attempt's
\* result: return it
AfterRetry(o, m, res) == [o EXCEPT !.pc = "done", !.n = res.n, !.err = res.err]

\* Read/Write, lines 56-59: the second attempt
OpRetry(p, m) ==
  /\ ~aborted
  /\ op[p][m].pc = "retry"
  /\ \E r \in EngineIO(pdFd[p]) :
       op' = [op EXCEPT ![p][m] =
                AfterRetry([op[p][m] EXCEPT !.attempts = Bump(@), !.io = r], m,
                           srtMsg2Impl(r))]
  /\ UNCHANGED <<engineVars, budget, regVars, waiterVars, runVars, aborted>>

\* the caller takes the result (n, err) of a finished Read/Write
OpReturn(p, m) ==
  /\ ~aborted
  /\ op[p][m].pc = "done"
  /\ op' = [op EXCEPT ![p][m] = IdleOp]
  /\ UNCHANGED <<engineVars, budget, regVars, waiterVars, runVars, aborted>>

\* ------------------------------------------------------------------------
\* SrtSocket.ReadBatch
\* ------------------------------------------------------------------------

\* what a step of ReadBatch leaves alone
batchRest == <<engineVars, limits, onceVars, wcall, logVars, nCreated, nNotices, regVars,
               runVars, opVars, aborted>>

\* srt_recvmsg2 on handle h with room bytes of buffer left: a byte count up
\* to room (0: nothing more to read), or -1 with the engine's error code; a
\* socket that is not usable only fails
EngineRecv(h, room) ==
  IF sockState[h] = "active"
  THEN {[ret |-> k, srterr |-> NoErr, syserr |-> 0] : k \in 0..Min(room, MaxBytes)}
         \cup {[ret |-> -1, srterr |-> e, syserr |-> 0] : e \in EngineErrs}
  ELSE {[ret |-> -1, srterr |-> EConnLost, syserr |-> 0]}

\* ReadBatch, lines 128-132: the arguments are checked before the loop
RBStart(p, blocking, maxPackets, buflen) ==
  LET b == [IdleBatch EXCEPT !.pd = p, !.blocking = blocking,
                             !.maxPackets = maxPackets, !.buflen = buflen]
  IN IF maxPackets <= 0 \/ buflen = 0
     THEN [b EXCEPT !.pc = "done"]
     ELSE [b EXCEPT !.pc = "loop"]

\* a ReadBatch that returns the error together with the packets it has read
RBFailKeeps(b, readErr) == [b EXCEPT !.pc = "done", !.err = readErr]

\* ReadBatch, lines 148-155: the call ends on an engine error: the packets
\* read so far with a nil error, or (0, 0, readErr) when there are none
RBFail(b, readErr) ==
  IF b.packetsRead > 0
  THEN [b EXCEPT !.pc = "done", !.err = NoErr]
  ELSE [b EXCEPT !.pc = "done", !.packetsRead = 0, !.totalBytes = 0, !.err = readErr]

\* ReadBatch, lines 158-164 and the loop header of line 133: n == 0 ends
\* the loop; otherwise the packet is counted and the loop goes on while
\* packetsRead < maxPackets and offset < len(buffer); line 167 returns
RBTake(b, n) ==
  IF n = 0
  THEN [b EXCEPT !.pc = "done", !.err = NoErr]
  ELSE LET c == [b EXCEPT !.offset = @ + n, !.totalBytes = @ + n,
                          !.packetsRead = @ + 1]
       IN IF c.packetsRead < c.maxPackets /\ c.offset < c.buflen
          THEN [c EXCEPT !.pc = "loop"]
          ELSE [c EXCEPT !.pc = "done", !.err = NoErr]

\* a ReadBatch that waits on every would-block, whatever it has read
RBAfterRecvWaits(b, res) ==
  IF res.err # NoErr
  THEN IF ~b.blocking /\ res.err = EAsyncRCV
       THEN [b EXCEPT !.pc = "reset"]
       ELSE RBFail(b, res.err)
  ELSE RBTake(b, res.n)

\* ReadBatch, lines 135-164: what follows the receive attempt of line 135
RBAfterRecv(b, res) ==
  IF res.err # NoErr
  THEN IF b.packetsRead = 0 /\ ~b.blocking /\ res.err = EAsyncRCV
       THEN [b EXCEPT !.pc = "reset"]
       ELSE RBFail(b, res.err)
  ELSE RBTake(b, res.n)

\* ReadBatch, lines 141-143: what follows wait
RBAfterWait(b, waitErr) ==
  IF waitErr # NoErr
  THEN [b EXCEPT !.pc = "done", !.packetsRead = 0, !.totalBytes = 0,
                 !.err = waitErr, !.waitErr = waitErr]
  ELSE [b EXCEPT !.pc = "retry"]

\* ReadBatch, lines 145-164: what follows the receive attempt of line 145
RBAfterRetry(b, res) ==
  IF res.err # NoErr THEN RBFail(b, res.err) ELSE RBTake(b, res.n)

\* the history of an engine call: one more attempt, its error
RBAttempt(b, res) ==
  [b EXCEPT !.attempts = Bump(@), !.last = res.err,
            !.first = IF b.attempts = 0 THEN res.err ELSE @]

\* ReadBatch is called on the socket of pollDesc p
RBCall(p) ==
  /\ ~aborted
  /\ Registered(p)
  /\ closeCalls[p] = 0
  /\ rb.pc = "idle"
  /\ nOps < limits.ops
  /\ nOps' = nOps + 1
  /\ \E blocking \in BOOLEAN, maxPackets \in -1..MaxPackets, buflen \in 0..MaxBuf :
       rb' = RBStart(p, blocking, maxPackets, buflen)
  /\ UNCHANGED <<batchRest, waiterVars>>

\* ReadBatch, line 135: a receive attempt of the loop
RBRecv ==
  /\ ~aborted
  /\ rb.pc = "loop"
  /\ \E r \in EngineRecv(pdFd[rb.pd], rb.buflen - rb.offset) :
       LET res == srtMsg2Impl(r)
       IN rb' = RBAfterRecv(RBAttempt(rb, res), res)
  /\ UNCHANGED <<batchRest, nOps, waiterVars>>

\* ReadBatch, line 140: s.pd.reset(ModeRead)
RBReset ==
  /\ ~aborted
  /\ rb.pc = "reset"
  /\ ready' = ResetFlags(ready, rb.pd, ModeRead)
  /\ perr' = ResetFlags(perr, rb.pd, ModeRead)
  /\ rb' = [rb EXCEPT !.pc = "wait"]
  /\ UNCHANGED <<batchRest, nOps>>

\* ReadBatch, line 141: s.pd.wait(ModeRead) is called; it returns at once
\* when a flag is set and parks the caller otherwise
RBWait ==
  /\ ~aborted
  /\ rb.pc = "wait"
  /\ LET b == [rb EXCEPT !.waits = Bump(@), !.waitAt = rb.packetsRead]
     IN IF WaitResults(rb.pd, ModeRead) # {}
        THEN \E w \in WaitResults(rb.pd, ModeRead) : rb' = RBAfterWait(b, w)
        ELSE rb' = [b EXCEPT !.pc = "blocked"]
  /\ UNCHANGED <<batchRest, nOps, waiterVars>>

\* wait(ModeRead) returns to the parked caller once unblock has set a flag
RBWake ==
  /\ ~aborted
  /\ rb.pc = "blocked"
  /\ \E w \in WaitResults(rb.pd, ModeRead) : rb' = RBAfterWait(rb, w)
  /\ UNCHANGED <<batchRest, nOps, waiterVars>>

\* wait(ModeRead) returns the timeout error when the caller's deadline passes
RBWaitTimeout ==
  /\ ~aborted
  /\ rb.pc = "blocked"
  /\ rb' = RBAfterWait(rb, ETimeout)
  /\ UNCHANGED <<batchRest, nOps, waiterVars>>

\* ReadBatch, line 145: the receive attempt after a successful wait
RBRetry ==
  /\ ~aborted
  /\ rb.pc = "retry"
  /\ \E r \in EngineRecv(pdFd[rb.pd], rb.buflen - rb.offset) :
       LET res == srtMsg2Impl(r)
       IN rb' = RBAfterRetry(RBAttempt(rb, res), res)
  /\ UNCHANGED <<batchRest, nOps, waiterVars>>

\* the caller takes the result (packetsRead, totalBytes, err)
RBReturn ==
  /\ ~aborted
  /\ rb.pc = "done"
  /\ rb' = IdleBatch
  /\ UNCHANGED <<batchRest, nOps, waiterVars>>

\* ------------------------------------------------------------------------
\* srtRecvMsg2Impl / srtSendMsg2Impl called on their own
\* ------------------------------------------------------------------------

\* the system error codes srt_getlasterror hands back with an engine error
SysErrnos == {-1, 0, 1}

\* srtRecvMsg2Impl ("recv") or srtSendMsg2Impl ("send") is called and the
\* engine call returns ret, with the engine error lasterror and the system
\* error syserror behind it
WrapCall(kind, ret, lasterror, syserror) ==
  /\ ~aborted
  /\ wcall.pc = "idle"
  /\ nOps < limits.ops
  /\ nOps' = nOps + 1
  /\ LET r == Msg2Wrapped(ret, lasterror, syserror)
         v == srtMsg2ImplValue(r)
     IN wcall' = [pc |-> "done", kind |-> kind, io |-> r, n |-> v.n, err |-> v.err]
  /\ UNCHANGED <<engineVars, limits, onceVars, rb, logVars, nCreated, nNotices, regVars,
                 waiterVars, runVars, opVars, aborted>>

\* the caller takes the result (n, err)
WrapReturn ==
  /\ ~aborted
  /\ wcall.pc = "done"
  /\ wcall' = IdleCall
  /\ UNCHANGED <<engineVars, limits, onceVars, rb, logVars, nCreated, nNotices, nOps,
                 regVars, waiterVars, runVars, opVars, aborted>>

\* ------------------------------------------------------------------------
\* pollServerCtx: the lazily created registry
\* ------------------------------------------------------------------------

\* what a step of pollServerCtx leaves alone
muxVars == <<engineVars, limits, nCreated, nNotices, nOps, regVars, waiterVars,
             events, eventPds, eventTypes, evIdx, pollLog, opVars, aborted,
             rb, wcall, logVars>>

\* pollServerCtx, line 20: thread t calls once.Do
CtxCall(t) ==
  /\ ctxPc[t] = "idle"
  /\ ctxPc' = [ctxPc EXCEPT ![t] = "do"]
  /\ UNCHANGED <<muxVars, runPc, once, phctx, nEpolls, nLoops, ctxGot>>

\* a first use guarded by a test of phctx instead of the sync.Once
OnceDoUnguarded(t) ==
  /\ ctxPc[t] = "do"
  /\ ctxPc' = [ctxPc EXCEPT ![t] = IF phctx = NilCtx THEN "init_create" ELSE "ret"]
  /\ UNCHANGED <<muxVars, runPc, once, phctx, nEpolls, nLoops, ctxGot>>

\* sync.Once.Do, line 20: the first caller runs pollServerCtxInit; a caller
\* that arrives while it runs waits for it to finish; a caller that arrives
\* afterwards returns at once
OnceDo(t) ==
  /\ ctxPc[t] = "do"
  /\ once # "running"
  /\ IF once = "fresh"
     THEN /\ once' = "running"
          /\ ctxPc' = [ctxPc EXCEPT ![t] = "init_create"]
     ELSE /\ ctxPc' = [ctxPc EXCEPT ![t] = "ret"]
          /\ UNCHANGED once
  /\ UNCHANGED <<muxVars, runPc, phctx, nEpolls, nLoops, ctxGot>>

\* pollServerCtxInit, lines 25-30: srt_epoll_create, srt_epoll_set, and the
\* assignment of the new pollServer to phctx
InitCreate(t) ==
  /\ ctxPc[t] = "init_create"
  /\ nEpolls' = nEpolls + 1
  /\ phctx' = NewCtx(nEpolls + 1)
  /\ ctxPc' = [ctxPc EXCEPT ![t] = "init_go"]
  /\ UNCHANGED <<muxVars, runPc, once, nLoops, ctxGot>>

\* pollServerCtxInit, line 31: go phctx.run(); pollServerCtxInit returns and
\* once.Do marks the Once done
InitGo(t) ==
  /\ ctxPc[t] = "init_go"
  /\ nLoops' = nLoops + 1
  /\ runPc' = IF runPc = "unstarted" THEN "uwait" ELSE runPc
  /\ once' = "done"
  /\ ctxPc' = [ctxPc EXCEPT ![t] = "ret"]
  /\ UNCHANGED <<muxVars, phctx, nEpolls, ctxGot>>

\* pollServerCtx, line 21: return phctx
CtxReturn(t) ==
  /\ ctxPc[t] = "ret"
  /\ ctxGot' = [ctxGot EXCEPT ![t] = phctx]
  /\ ctxPc' = [ctxPc EXCEPT ![t] = "got"]
  /\ UNCHANGED <<muxVars, runPc, once, phctx, nEpolls, nLoops>>

\* the thread has used the registry it got and will ask for it again (every
\* use of the registry goes through pollServerCtx)
CtxAgain(t) ==
  /\ ctxPc[t] = "got"
  /\ ctxPc' = [ctxPc EXCEPT ![t] = "idle"]
  /\ UNCHANGED <<muxVars, runPc, once, phctx, nEpolls, nLoops, ctxGot>>

\* ------------------------------------------------------------------------
\* The log handler: SrtSetLogHandler / SrtUnsetLogHandler
\* ------------------------------------------------------------------------

\* what a step on the log handler leaves alone
logRest == <<engineVars, limits, onceVars, rb, wcall, nCreated, nNotices,
             regVars, waiterVars, runVars, opVars>>

\* SrtSetLogHandler, line 84: ptr := gopointer.Save(cb), a token not handed
\* out before
LogSave(t) ==
  /\ ~aborted
  /\ logPc[t] = "idle"
  /\ nOps < limits.ops
  /\ nOps' = nOps + 1
  /\ nSaved' = nSaved + 1
  /\ logSaved' = logSaved \cup {nSaved + 1}
  /\ logPtr' = [logPtr EXCEPT ![t] = nSaved + 1]
  /\ logPc' = [logPc EXCEPT ![t] = "install"]
  /\ UNCHANGED <<logRest, aborted, logCBPtr, logCBPtrLock, logHandler>>

\* SrtSetLogHandler, line 85: srt_setloghandler(ptr, srtLogCB)
LogInstall(t) ==
  /\ ~aborted
  /\ logPc[t] = "install"
  /\ logHandler' = logPtr[t]
  /\ logPc' = [logPc EXCEPT ![t] = "store"]
  /\ UNCHANGED <<logRest, aborted, nOps, logCBPtr, logCBPtrLock, logSaved, nSaved, logPtr>>

\* SrtUnsetLogHandler, line 90: srt_setloghandler(nil, nil)
LogUninstall(t) ==
  /\ ~aborted
  /\ logPc[t] = "idle"
  /\ nOps < limits.ops
  /\ nOps' = nOps + 1
  /\ logHandler' = NilPtr
  /\ logPtr' = [logPtr EXCEPT ![t] = NilPtr]
  /\ logPc' = [logPc EXCEPT ![t] = "store"]
  /\ UNCHANGED <<logRest, aborted, logCBPtr, logCBPtrLock, logSaved, nSaved>>

\* storeLogCBPtr, line 95: logCBPtrLock.Lock()
LogStoreLock(t) ==
  /\ ~aborted
  /\ logPc[t] = "store"
  /\ logCBPtrLock = LockFree
  /\ logCBPtrLock' = t
  /\ logPc' = [logPc EXCEPT ![t] = "locked"]
  /\ UNCHANGED <<logRest, aborted, nOps, logCBPtr, logHandler, logSaved, nSaved, logPtr>>

\* storeLogCBPtr, lines 97-101: Unref the token stored before, store ptr,
\* unlock (deferred); the caller returns
LogStore(t) ==
  /\ ~aborted
  /\ logPc[t] = "locked"
  /\ logSaved' = IF logCBPtr # NilPtr THEN logSaved \ {logCBPtr} ELSE logSaved
  /\ logCBPtr' = logPtr[t]
  /\ logCBPtrLock' = LockFree
  /\ logPc' = [logPc EXCEPT ![t] = "idle"]
  /\ logPtr' = [logPtr EXCEPT ![t] = NilPtr]
  /\ UNCHANGED <<logRest, aborted, nOps, logHandler, nSaved>>

\* srtLogCBWrapper, lines 72-77: the engine logs a line through the handler
\* it holds; gopointer.Restore of a token that was Unref'd yields nil and the
\* type assertion of line 73 panics
LogCallback ==
  /\ ~aborted
  /\ logHandler # NilPtr
  /\ aborted' = (logHandler \notin logSaved)
  /\ UNCHANGED <<logRest, nOps, logVars>>

\* ------------------------------------------------------------------------
\* The system
\* ------------------------------------------------------------------------

RegistryNext ==
  \E p \in Pds :
    \/ \E h \in Handles : PollOpenAdd(p, h)
    \/ PollOpenPut(p)
    \/ PollCloseState(p)
    \/ PollCloseRemove(p)
    \/ PollCloseDelete(p)

RunNext ==
  \/ RunTimeout
  \/ \E errno \in {ETimeout, EConnLost} : RunError(errno)
  \/ \E S \in SUBSET Handles : RunEvents(S)
  \/ ProcSnapshot
  \/ ProcDispatch

OpNext ==
  \E p \in Pds, m \in Modes :
    \/ OpAttempt(p, m)
    \/ OpReset(p, m)
    \/ OpWait(p, m)
    \/ OpWake(p, m)
    \/ OpWaitTimeout(p, m)
    \/ OpRetry(p, m)
    \/ OpReturn(p, m)

\* Registry runs: pollOpen / pollClose against the engine's socket life
\* cycle, handle values reused
InitReg == InitWith([live |-> 0, pds |-> MaxPds, ops |-> 0, callers |-> 0, notices |-> 0,
                     sockets |-> RegSockets, closes |-> RegCloses, polls |-> 0])

NextReg ==
  \/ \E h \in Handles : EngineCreate(h) \/ EngineBreak(h) \/ EngineClose(h) \/ EngineReap(h)
  \/ RegistryNext

SpecReg == InitReg /\ [][NextReg]_vars

\* I/O runs on one socket: Read / Write callers (one at a time), the
\* dispatch loop and the registry
Init == InitWith([live |-> 1, pds |-> 1, ops |-> IOOps, callers |-> 1,
                  notices |-> IONotices, sockets |-> 0, closes |-> IOCloses, polls |-> 0])

Next ==
  \/ \E h \in Handles :
       \/ EngineBreak(h)
       \/ \E bit \in {EPOLL_IN, EPOLL_OUT} : EngineNotify(h, bit)
  \/ RegistryNext
  \/ RunNext
  \/ OpNext

Spec == Init /\ [][Next]_vars

\* I/O runs on a pair of sockets, one caller at a time, the engine's poll
\* call never failing
InitPair == InitWith([live |-> 2, pds |-> 2, ops |-> PairOps, callers |-> 1,
                      notices |-> PairNotices, sockets |-> 0, closes |-> 0, polls |-> 0])

NextPair ==
  \/ \E h \in Handles :
       \/ EngineBreak(h)
       \/ \E bit \in {EPOLL_IN, EPOLL_OUT} : EngineNotify(h, bit)
  \/ \E p \in Pds :
       \/ \E h \in Handles : PollOpenAdd(p, h)
       \/ PollOpenPut(p)
  \/ RunTimeout
  \/ \E S \in SUBSET Handles : RunEvents(S)
  \/ ProcSnapshot
  \/ ProcDispatch
  \/ OpNext

SpecPair == InitPair /\ [][NextPair]_vars

\* Fair runs on one socket, one caller at a time: the dispatch goroutine,
\* the goroutine opening and closing the pollDesc and the calling goroutine
\* each eventually take a step they can take (a panic or a deadline is
\* never forced)
InitFair == InitWith([live |-> 1, pds |-> 1, ops |-> FairOps, callers |-> 1,
                      notices |-> FairNotices, sockets |-> 0, closes |-> FairCloses, polls |-> 0])

Fairness ==
  /\ WF_vars(\/ \E S \in SUBSET Handles : RunEvents(S)
             \/ ProcSnapshot
             \/ ProcDispatch)
  /\ WF_vars(\E p \in Pds : PollOpenPut(p) \/ PollCloseRemove(p) \/ PollCloseDelete(p))
  /\ WF_vars(\E p \in Pds, m \in Modes :
               OpReset(p, m) \/ OpWait(p, m) \/ OpWake(p, m) \/ OpRetry(p, m) \/ OpReturn(p, m))

SpecFair == InitFair /\ [][Next]_vars /\ Fairness

\* Batch runs: a pair of sockets, each registered and read by its own
\* caller, the callers running side by side; the engine raises readable
\* notices only
InitBatch == InitWith([live |-> 2, pds |-> 2, ops |-> BatchOps, callers |-> 2,
                       notices |-> BatchNotices, sockets |-> 0, closes |-> 0, polls |-> 0])

NextBatch ==
  \/ \E h \in Handles : EngineNotify(h, EPOLL_IN)
  \/ \E p \in Pds :
       \/ \E h \in Handles : PollOpenAdd(p, h)
       \/ PollOpenPut(p)
  \/ RunTimeout
  \/ \E S \in SUBSET Handles : RunEvents(S)
  \/ ProcSnapshot
  \/ ProcDispatch
  \/ \E p \in Pds :
       \/ OpAttempt(p, ModeRead)
       \/ OpReset(p, ModeRead)
       \/ OpWait(p, ModeRead)
       \/ OpWake(p, ModeRead)
       \/ OpWaitTimeout(p, ModeRead)
       \/ OpRetry(p, ModeRead)
       \/ OpReturn(p, ModeRead)

SpecBatch == InitBatch /\ [][NextBatch]_vars

\* ------------------------------------------------------------------------
\* Registry claims (SpecReg)
\* ------------------------------------------------------------------------

\* C1: a handle is a key of the waiter map if and only if it is currently
\* registered (pollOpen returned for it and no pollClose has returned since);
\* in particular it is not a key once pollClose has returned, whatever the
\* socket's state was.
C1_MapIffRegistered ==
  \A h \in Handles : (pollDescs[h] # NoPd) <=> regd[h]

\* C2: pollOpen never replaces the map entry of a handle by a different
\* pollDesc: an entry only appears, stays, or is deleted.
C2_NoOverwrite ==
  [][\A h \in Handles :
       pollDescs[h] # NoPd => pollDescs'[h] \in {pollDescs[h], NoPd}]_vars

\* a step of the pollClose call number k >= 2 on pollDesc p
SecondCloseStep(p) ==
  /\ closeCalls'[p] >= 2
  /\ \/ closeCalls'[p] # closeCalls[p]
     \/ pdPc[p] \in {"close_remove", "close_delete"} /\ pdPc'[p] # pdPc[p]

\* C3: a second pollClose on the same pollDesc returns normally (no panic)
\* and changes neither the waiter map nor the epoll context.
C3_SecondCloseIsNoop ==
  [][\A p \in Pds :
       SecondCloseStep(p) =>
         /\ ~aborted'
         /\ pollDescs' = pollDescs
         /\ epollSet' = epollSet]_vars

\* ------------------------------------------------------------------------
\* Dispatch claims (SpecPair)
\* ------------------------------------------------------------------------

\* the steps of run / processEvents that take a batch from the engine and
\* snapshot it
PollStep == runPc = "uwait" /\ runPc' = "snapshot"
SnapshotStep == runPc = "snapshot" /\ runPc' = "dispatch"

\* the step of processEvents that dispatches the event events[evIdx]
DispatchStep == runPc = "dispatch" /\ (evIdx' # evIdx \/ runPc' # runPc)

Parked(p, m) == op[p][m].pc = "blocked"

\* C4: dispatching an event whose handle is B touches only the waiter of the
\* pollDesc whose fd is B: no flag of any other pollDesc changes in that step,
\* so a caller parked on another socket stays parked.
C4_NoCrossWake ==
  [][DispatchStep =>
       \A p \in Pds :
         (ready'[p] # ready[p] \/ perr'[p] # perr[p] \/ op'[p] # op[p])
           => events[evIdx].fd = pdFd[p]]_vars

\* C4 witness: a caller is parked in wait(read) on socket A, an event for
\* another registered socket B has been dispatched to B's waiter, and A's
\* caller is still parked with no flag set.
C4_Witness ==
  \E a \in Pds, b \in Pds :
    /\ a # b
    /\ pdFd[a] \in Handles
    /\ pdFd[b] \in Handles
    /\ pdFd[a] # pdFd[b]
    /\ pollDescs[pdFd[a]] = a
    /\ pollDescs[pdFd[b]] = b
    /\ Parked(a, ModeRead)
    /\ ~ready[a][ModeRead]
    /\ ~perr[a][ModeRead]
    /\ \E m \in Modes : ready[b][m] \/ perr[b][m]

\* ------------------------------------------------------------------------
\* Wake-up claims (SpecFair: one caller at a time, so the parked caller is
\* unique and "nobody is parked" means it has returned)
\* ------------------------------------------------------------------------

\* the error event of handle h has been raised and not yet dispatched
ErrEventUndelivered(h) ==
  \/ EPOLL_ERR \in pending[h]
  \/ /\ runPc \in {"snapshot", "dispatch"}
     /\ \E i \in evIdx..Len(events) : events[i].fd = h /\ EPOLL_ERR \in events[i].events

C6_CloseWakes ==
  (\E p \in Pds, m \in Modes : Parked(p, m) /\ op[p][m].closedInWait)
    ~> ((\A p \in Pds, m \in Modes : ~Parked(p, m)) \/ aborted)

\* ------------------------------------------------------------------------
\* Retry protocol claims (Spec)
\* ------------------------------------------------------------------------

Returned(o) == [n |-> o.n, err |-> o.err]

\* C7: a Read/Write call makes at most two engine attempts and at most one
\* wait; after the second attempt it is done, and it returns what the second
\* attempt yielded.
C7_BoundedRetry ==
  \A p \in Pds, m \in Modes :
    LET o == op[p][m]
    IN /\ o.attempts <= 2
       /\ o.waits <= 1
       /\ o.resets <= 1
       /\ o.attempts = 2 => (o.pc = "done" /\ Returned(o) = srtMsg2Impl(o.io))

\* C7 witness: the second attempt reported would-block again and that error
\* was returned.
C7_Witness ==
  \E p \in Pds, m \in Modes :
    /\ op[p][m].pc = "done"
    /\ op[p][m].attempts = 2
    /\ op[p][m].waits = 1
    /\ op[p][m].err = OwnAsync(m)

\* C8: on a non-blocking socket, when the first send reported would-block,
\* the wait succeeded and the second send wrote k bytes, Write returns
\* (k, nil) after exactly one retry.
C8_WriteAfterWritable ==
  \A p \in Pds :
    LET o == op[p][ModeWrite]
    IN (/\ o.pc = "done"
        /\ ~o.blocking
        /\ o.first = EAsyncSND
        /\ o.waits >= 1
        /\ o.waitErr = NoErr
        /\ o.io.ret >= 0)
         => (o.n = o.io.ret /\ o.err = NoErr /\ o.attempts = 2 /\ o.waits = 1)

\* C8 witness: a Write parked on would-block was released by a writable
\* event (ready flag, no error flag) and returned the bytes of the retry.
C8_Witness ==
  \E p \in Pds :
    /\ op[p][ModeWrite].pc = "done"
    /\ op[p][ModeWrite].parked
    /\ op[p][ModeWrite].first = EAsyncSND
    /\ ready[p][ModeWrite]
    /\ ~perr[p][ModeWrite]
    /\ op[p][ModeWrite].attempts = 2
    /\ op[p][ModeWrite].n = MaxBytes
    /\ op[p][ModeWrite].err = NoErr

\* C9: with s.blocking set, Read/Write never reset, wait or retry: the result
\* of the single engine call is returned unchanged.
C9_BlockingNoRetry ==
  \A p \in Pds, m \in Modes :
    LET o == op[p][m]
    IN (o.blocking /\ o.pc # "idle")
         => /\ o.pc = "done"
            /\ o.attempts = 1
            /\ o.resets = 0
            /\ o.waits = 0
            /\ Returned(o) = srtMsg2Impl(o.io)

\* C9 witness: a blocking-mode call returned the would-block error of its
\* own direction.
C9_Witness ==
  \E p \in Pds, m \in Modes :
    /\ op[p][m].pc = "done"
    /\ op[p][m].blocking
    /\ op[p][m].err = OwnAsync(m)

\* C10: when wait returns an error the call returns (0, that error) at once
\* and makes no second engine attempt.
C10_WaitErrorReturned ==
  \A p \in Pds, m \in Modes :
    LET o == op[p][m]
    IN o.waitErr # NoErr
         => /\ o.pc = "done"
            /\ o.n = 0
            /\ o.err = o.waitErr
            /\ o.attempts = 1

\* C10 witness: a parked caller was released by an error signal and the call
\* returned the Fatal wait error.
C10_Witness ==
  \E p \in Pds, m \in Modes :
    /\ op[p][m].pc = "done"
    /\ op[p][m].parked
    /\ op[p][m].waitErr = EPollErr
    /\ op[p][m].err = EPollErr
    /\ op[p][m].n = 0

\* ------------------------------------------------------------------------
\* Error surfacing claims (Spec)
\* ------------------------------------------------------------------------

\* C11: on a non-blocking socket, a Read/Write that returns the would-block
\* error of its own direction has made exactly one wait that returned
\* success, and the error is the one of the second engine attempt, never of
\* the first.
C11_WouldBlockAfterRetry ==
  \A p \in Pds, m \in Modes :
    LET o == op[p][m]
    IN (o.pc = "done" /\ ~o.blocking /\ o.err = OwnAsync(m))
         => /\ o.attempts = 2
            /\ o.waits = 1
            /\ o.resets = 1
            /\ o.waitErr = NoErr
            /\ o.first = OwnAsync(m)
            /\ o.io.ret = -1
            /\ o.io.srterr = OwnAsync(m)

\* C11 witness: a non-blocking Read was parked, released by a ready signal,
\* retried, and returned the read-would-block error of the second attempt.
C11_Witness ==
  \E p \in Pds :
    /\ op[p][ModeRead].pc = "done"
    /\ ~op[p][ModeRead].blocking
    /\ op[p][ModeRead].parked
    /\ op[p][ModeRead].waitErr = NoErr
    /\ op[p][ModeRead].attempts = 2
    /\ op[p][ModeRead].err = EAsyncRCV

\* C12: when the first engine attempt fails with an error other than the
\* would-block error of the call's own direction (Timeout, a Fatal kind, the
\* other direction's would-block), the call is done at once: it returns
\* (0, that error) and makes no reset, no wait and no second attempt.
C12_OtherErrorsSurface ==
  \A p \in Pds, m \in Modes :
    LET o == op[p][m]
    IN (o.pc # "idle" /\ o.first \notin {NoErr, OwnAsync(m)})
         => /\ o.pc = "done"
            /\ o.n = 0
            /\ o.err = o.first
            /\ o.attempts = 1
            /\ o.resets = 0
            /\ o.waits = 0

\* C12 witness: a non-blocking Read whose first attempt reported the
\* write-would-block error returned that error after one engine call.
C12_Witness ==
  \E p \in Pds :
    /\ op[p][ModeRead].pc = "done"
    /\ ~op[p][ModeRead].blocking
    /\ op[p][ModeRead].first = EAsyncSND
    /\ op[p][ModeRead].err = EAsyncSND
    /\ op[p][ModeRead].attempts = 1

\* ------------------------------------------------------------------------
\* ReadinessWaiter claims
\* ------------------------------------------------------------------------

\* the step in which the caller of pollDesc p calls wait(m)
WaitCallStep(p, m) == op[p][m].pc = "wait" /\ op'[p][m].pc # "wait"

\* C13: for each direction, when reset(direction) was followed by
\* unblock(direction, error=false, ready=true) and by nothing else (at the
\* call of wait the ready flag is set and the error flag is not), the call
\* of wait(direction) returns success in that very step, without parking
\* the caller.
C13_RoundTrip ==
  [][\A p \in Pds, m \in Modes :
       (WaitCallStep(p, m) /\ ready[p][m] /\ ~perr[p][m])
         => /\ op'[p][m].pc = "retry"
            /\ op'[p][m].waitErr = NoErr
            /\ ~op'[p][m].parked]_vars

\* C13 witness: the ready signal arrived after the failed attempt and before
\* the call of wait, the flag survived to the call, and wait returned
\* success to a caller that was never parked.
C13_Witness ==
  \E p \in Pds, m \in Modes :
    /\ op[p][m].pc = "retry"
    /\ op[p][m].signalled
    /\ op[p][m].resets = 1
    /\ op[p][m].waits = 1
    /\ op[p][m].waitErr = NoErr
    /\ ~op[p][m].parked
    /\ ready[p][m]
    /\ ~perr[p][m]

\* C14: unblock calls made on a direction while nobody waits on it neither
\* block the dispatch loop (the dispatch of the next event of a batch is
\* always enabled) nor deadlock a later wait: a caller that has reset over the
\* flags such calls left, has parked in wait and then gets a fresh unblock
\* returns from wait.
C14_UnblockWithoutWaiter ==
  /\ []((runPc = "dispatch" /\ ~aborted) => ENABLED ProcDispatch)
  /\ (\E p \in Pds, m \in Modes : /\ Parked(p, m)
                                   /\ op[p][m].staleAtReset
                                   /\ (ready[p][m] \/ perr[p][m]))
       ~> ((\A p \in Pds, m \in Modes : ~Parked(p, m)) \/ aborted)

\* C14 witness: the direction was signalled while it had no waiter, the
\* caller reset over the flag, parked in wait, and a fresh unblock made wait
\* return.
C14_Witness ==
  \E p \in Pds, m \in Modes :
    /\ op[p][m].staleAtReset
    /\ op[p][m].parked
    /\ op[p][m].pc \in {"retry", "done"}
    /\ op[p][m].waitErr \in {NoErr, EPollErr}

\* C16: a signal the dispatch loop delivers for the direction of a call
\* between the call's failed first attempt and its call of wait is not
\* lost: that call's wait does not park the caller.
C16_NoLostWakeup ==
  \A p \in Pds, m \in Modes :
    op[p][m].signalled => ~op[p][m].parked

\* ------------------------------------------------------------------------
\* Dispatch rules (SpecPair)
\* ------------------------------------------------------------------------

\* C17: the dispatch of an event with the error bit whose handle has a
\* waiter makes exactly the two calls unblock(read, true, false) and
\* unblock(write, true, false): both error flags of the waiter are set and
\* its ready flags are left as they were, also when the readable or the
\* writable bit is set in the event.
C17_ErrorUnblocksBoth ==
  [][DispatchStep =>
       LET pd == eventPds[evIdx]
           eventFlags == eventTypes[evIdx]
       IN (pd # NoPd /\ EPOLL_ERR \in eventFlags) =>
            /\ UnblockCalls(eventFlags)
                 = {<<ModeRead, TRUE, FALSE>>, <<ModeWrite, TRUE, FALSE>>}
            /\ perr'[pd][ModeRead]
            /\ perr'[pd][ModeWrite]
            /\ ready'[pd] = ready[pd]]_vars

\* C17 witness: the first event of a batch carried the error and the
\* readable bit, its socket had a reader parked; after its dispatch both
\* error flags are set and the read direction has no ready flag.
C17_Witness ==
  /\ runPc = "dispatch"
  /\ evIdx = 2
  /\ eventPds[1] # NoPd
  /\ {EPOLL_ERR, EPOLL_IN} \subseteq eventTypes[1]
  /\ Parked(eventPds[1], ModeRead)
  /\ perr[eventPds[1]][ModeRead]
  /\ perr[eventPds[1]][ModeWrite]
  /\ ~ready[eventPds[1]][ModeRead]

\* C18: the dispatch of an event without the error bit sets no error flag,
\* sets the ready flag of the read direction iff the readable bit is set
\* and the ready flag of the write direction iff the writable bit is set,
\* and leaves the other direction's flags and caller as they were.
C18_ReadyPerDirection ==
  [][DispatchStep =>
       LET pd == eventPds[evIdx]
           eventFlags == eventTypes[evIdx]
       IN (pd # NoPd /\ EPOLL_ERR \notin eventFlags) =>
            /\ perr' = perr
            /\ ready'[pd][ModeRead] = (ready[pd][ModeRead] \/ EPOLL_IN \in eventFlags)
            /\ ready'[pd][ModeWrite] = (ready[pd][ModeWrite] \/ EPOLL_OUT \in eventFlags)
            /\ (EPOLL_IN \notin eventFlags => op'[pd][ModeRead] = op[pd][ModeRead])
            /\ (EPOLL_OUT \notin eventFlags => op'[pd][ModeWrite] = op[pd][ModeWrite])]_vars

\* C18 witness: a readable-only event was dispatched for a socket whose
\* writer is parked: the read direction is flagged, the write direction is
\* not and the writer is still parked.
C18_Witness ==
  /\ runPc = "dispatch"
  /\ evIdx = 2
  /\ eventPds[1] # NoPd
  /\ eventTypes[1] = {EPOLL_IN}
  /\ ready[eventPds[1]][ModeRead]
  /\ ~ready[eventPds[1]][ModeWrite]
  /\ ~perr[eventPds[1]][ModeWrite]
  /\ Parked(eventPds[1], ModeWrite)

\* ------------------------------------------------------------------------
\* Lock discipline (Spec)
\* ------------------------------------------------------------------------

\* C19: the waiter-map mutex is never held by the dispatch loop while it
\* dispatches (it is released once the snapshot is taken), and whoever holds
\* it is a thread inside pollOpen, never a caller parked in wait.
C19_LockNotHeldAcrossDispatch ==
  /\ runPc = "dispatch" => pollDescLock # RunHolder
  /\ pollDescLock \in {LockFree, RunHolder} \cup Pds
  /\ pollDescLock \in Pds => pdPc[pollDescLock] \in {"open_added", "panicked"}
  /\ \A p \in Pds, m \in Modes : Parked(p, m) => pollDescLock # p

\* C19 witness: the dispatch loop is about to signal a waiter whose caller is
\* parked in wait, and the mutex is free.
C19_Witness ==
  /\ runPc = "dispatch"
  /\ evIdx <= Len(eventPds)
  /\ eventPds[evIdx] # NoPd
  /\ \E m \in Modes : Parked(eventPds[evIdx], m)
  /\ pollDescLock = LockFree

\* the steps of pollOpen on pollDesc p: the call of srt_epoll_add_usock, and
\* the map insertion with the return
OpenAddStep(p) == pdPc[p] = "new" /\ pdPc'[p] # "new"
OpenPutStep(p) == pdPc[p] = "open_added" /\ pdPc'[p] = "open"

C15_BatchWakesEach ==
  /\ [][(PollStep =>
           \A h \in Handles :
             (pending[h] # {} /\ pending'[h] = {}) =>
               (\E i \in 1..Len(events') :
                  /\ events'[i] = [fd |-> h, events |-> pending[h]]
                  /\ \A j \in 1..Len(events') : (events'[j].fd = h => j = i)))
        /\ (SnapshotStep =>
             /\ DOMAIN eventPds' = DOMAIN events
             /\ \A i \in DOMAIN events :
                  /\ eventPds'[i] = pollDescs[events[i].fd]
                  /\ (eventPds'[i] # NoPd => eventTypes'[i] = events[i].events))
        /\ (DispatchStep =>
             LET pd == eventPds[evIdx]
             IN (pd # NoPd /\ eventTypes[evIdx] = {EPOLL_IN}) =>
                  /\ ready'[pd][ModeRead]
                  /\ \A q \in Pds \ {pd} :
                       ready'[q] = ready[q] /\ perr'[q] = perr[q] /\ op'[q] = op[q])]_vars
  /\ [](runPc = "dispatch" =>
          /\ (~aborted => ENABLED ProcDispatch)
          /\ \A i, j \in DOMAIN eventPds :
               (eventPds[i] # NoPd /\ eventPds[i] = eventPds[j]) => i = j)
  /\ [](\A p \in Pds :
          (Parked(p, ModeRead) /\ ready[p][ModeRead] /\ ~aborted)
            => ENABLED OpWake(p, ModeRead))

\* C15 witness: a batch of two or more readable events, every socket with
\* a caller parked in wait(read); all events but the last are dispatched and
\* their callers released (the first has already returned from wait), while
\* the caller of the last event is still parked.
C15_Witness ==
  /\ runPc = "dispatch"
  /\ Len(eventPds) >= 2
  /\ evIdx = Len(eventPds)
  /\ \A i \in DOMAIN eventPds :
       /\ eventPds[i] # NoPd
       /\ eventTypes[i] = {EPOLL_IN}
       /\ op[eventPds[i]][ModeRead].parked
  /\ \A i \in 1..(evIdx - 1) : ready[eventPds[i]][ModeRead]
  /\ op[eventPds[1]][ModeRead].pc = "retry"
  /\ Parked(eventPds[evIdx], ModeRead)
  /\ ~ready[eventPds[evIdx]][ModeRead]

\* ------------------------------------------------------------------------
\* Dispatch-loop claims (SpecLoop)
\* ------------------------------------------------------------------------

\* Loop runs: a pair of sockets registered and unregistered while the
\* dispatch loop polls; no Read/Write
InitLoop == InitWith([live |-> 2, pds |-> 2, ops |-> 0, callers |-> 0,
                      notices |-> LoopNotices, sockets |-> 0,
                      closes |-> LoopCloses, polls |-> 0])

NextLoop ==
  \/ \E h \in Handles :
       \/ EngineBreak(h)
       \/ \E bit \in {EPOLL_IN, EPOLL_OUT} : EngineNotify(h, bit)
  \/ RegistryNext
  \/ RunNext

SpecLoop == InitLoop /\ [][NextLoop]_vars

\* the dispatch step calls unblock on pollDesc p
Signals(p) ==
  /\ DispatchStep
  /\ eventPds[evIdx] = p
  /\ UnblockCalls(eventTypes[evIdx]) # {}

\* C21: the dispatch loop never calls unblock on a pollDesc after a
\* pollClose of that pollDesc has returned
C21_NoSignalAfterUnregister ==
  [][\A p \in Pds : Signals(p) => closeRet(p) = 0]_vars

\* C22: an event whose handle has no entry in the map when the snapshot is
\* taken gets a nil pollDesc, and dispatching it changes no waiter flag,
\* does not end the process and moves on to the next event of the batch (or
\* back to polling after the last one); the loop can always take that step
C22_NilEventSkipped ==
  /\ [][SnapshotStep =>
          \A i \in 1..Len(events) :
            pollDescs[events[i].fd] = NoPd => eventPds'[i] = NoPd]_vars
  /\ [][(DispatchStep /\ eventPds[evIdx] = NoPd) =>
          /\ UNCHANGED <<waiterVars, opVars, aborted>>
          /\ IF evIdx < Len(eventPds)
             THEN /\ evIdx' = evIdx + 1
                  /\ UNCHANGED <<runPc, events, eventPds, eventTypes>>
             ELSE runPc' = "uwait"]_vars
  /\ []((runPc = "dispatch" /\ ~aborted) => ENABLED ProcDispatch)

\* a batch of two events, the first skipped for want of a map entry, the
\* second about to be dispatched to its pollDesc
C22_Witness ==
  /\ runPc = "dispatch"
  /\ Len(eventPds) = 2
  /\ evIdx = 2
  /\ eventPds[1] = NoPd
  /\ eventPds[2] # NoPd
  /\ eventTypes[2] # {}
  /\ ~aborted

\* Poll runs: one socket registered while the dispatch loop polls, the
\* results of its first polls kept in pollLog
InitPoll == InitWith([live |-> 1, pds |-> 1, ops |-> 0, callers |-> 0,
                      notices |-> PollNotices, sockets |-> 0,
                      closes |-> 0, polls |-> PollPolls])

NextPoll ==
  \/ \E h \in Handles :
       \/ EngineBreak(h)
       \/ \E bit \in {EPOLL_IN, EPOLL_OUT} : EngineNotify(h, bit)
  \/ \E p \in Pds :
       \/ \E h \in Handles : PollOpenAdd(p, h)
       \/ PollOpenPut(p)
  \/ RunNext

SpecPoll == InitPoll /\ [][NextPoll]_vars

\* C23: after a zero-event return and after a timeout error the loop is
\* polling again; after any other error it has stopped, and once stopped no
\* event is dispatched and no waiter flag changes
C23_PollOutcomes ==
  /\ [][pollLog' # pollLog =>
          LET kind == pollLog'[Len(pollLog')]
          IN /\ kind \in {"zero", "timeout"} =>
                  (runPc' = "uwait" /\ ~aborted')
             /\ kind = "error" => (runPc' = "panicked" /\ aborted')
             /\ kind = "events" => runPc' = "snapshot"]_vars
  /\ []((runPc = "uwait" /\ ~aborted) =>
          (ENABLED RunTimeout \/ ENABLED (\E S \in SUBSET Handles : RunEvents(S))))
  /\ [][runPc = "panicked" => UNCHANGED <<waiterVars, runVars>>]_vars

\* the loop stopped on a hard error while an event was waiting to be polled
C23_Witness ==
  /\ runPc = "panicked"
  /\ pollLog # <<>>
  /\ pollLog[Len(pollLog)] = "error"
  /\ ReadyHandles # {}

\* C27: every event of a batch for a handle that a pollOpen has added to
\* the context, and that no pollClose has been called for, gets the handle's
\* pollDesc in the snapshot; the snapshot is never taken between the add
\* and the map insertion
C27_EventFindsWaiter ==
  [][SnapshotStep =>
       \A i \in 1..Len(events) : \A p \in Pds :
         (/\ pdFd[p] = events[i].fd
          /\ pdPc[p] \in {"open_added", "open"}
          /\ \A q \in Pds : pdFd[q] = events[i].fd => closeCalls[q] = 0)
           => eventPds'[i] = p]_vars

\* the snapshot found the pollDesc of a handle never unregistered
C27_Witness ==
  /\ runPc = "dispatch"
  /\ evIdx <= Len(eventPds)
  /\ eventPds[evIdx] # NoPd
  /\ pdPc[eventPds[evIdx]] = "open"
  /\ closeCalls[eventPds[evIdx]] = 0
  /\ pdFd[eventPds[evIdx]] = events[evIdx].fd

\* ------------------------------------------------------------------------
\* Registry failure claims (SpecReg, SpecRej)
\* ------------------------------------------------------------------------

\* the step of a pollClose on pollDesc p that finds the socket broken,
\* closing, closed or nonexistent
EarlyCloseStep(p) ==
  /\ pdPc[p] = "open"
  /\ closeCalls'[p] = closeCalls[p] + 1
  /\ CloseReturnsEarly(sockState[pdFd[p]])

\* C25: a pollClose that finds the socket broken, closing, closed or
\* nonexistent leaves the epoll context alone, does not panic, returns, and
\* the handle's entry is gone from the map
C25_BrokenCloseRemovesEntry ==
  [][\A p \in Pds :
       EarlyCloseStep(p) =>
         /\ epollSet' = epollSet
         /\ ~aborted'
         /\ pdPc'[p] = "open"
         /\ pollDescs'[pdFd[p]] = NoPd]_vars

\* Rejection runs: one socket at the start, pollOpen / pollClose against the
\* engine's socket life cycle, handle values reused
InitRej == InitWith([live |-> 1, pds |-> 2, ops |-> 0, callers |-> 0, notices |-> 0,
                     sockets |-> RejSockets, closes |-> RejCloses, polls |-> 0])

SpecRej == InitRej /\ [][NextReg]_vars

\* the step in which the pollOpen or pollClose running on p panics
PanicStep(p) == pdPc[p] # "panicked" /\ pdPc'[p] = "panicked"

\* C26: a pollOpen whose srt_epoll_add_usock is rejected panics; a pollOpen
\* or pollClose that panics ends the process and leaves the map and the
\* epoll context as they were, and nothing changes the map afterwards
C26_RejectAborts ==
  /\ [][\A p \in Pds :
          (OpenAddStep(p) /\ ~AddUsockOk(pdFd'[p])) => PanicStep(p)]_vars
  /\ [][\A p \in Pds :
          PanicStep(p) =>
            /\ aborted'
            /\ pollDescs' = pollDescs
            /\ epollSet' = epollSet]_vars
  /\ [][aborted => pollDescs' = pollDescs]_vars

\* a pollClose on a live socket panicked on the rejected remove, the entry
\* of its handle still in the map
C26_Witness ==
  \E p \in Pds :
    /\ pdPc[p] = "panicked"
    /\ closeCalls[p] >= 1
    /\ pdFd[p] \in Handles
    /\ sockState[pdFd[p]] = "active"
    /\ pollDescs[pdFd[p]] = p

\* ------------------------------------------------------------------------
\* First-use claims (SpecOnce)
\* ------------------------------------------------------------------------

\* First-use runs: the process before any use of the registry, and threads
\* that call pollServerCtx side by side
InitOnce == InitState([live |-> 0, pds |-> 0, ops |-> 0, callers |-> 0,
                       notices |-> 0, sockets |-> 0, closes |-> 0, polls |-> 0],
                      FALSE)

NextOnce ==
  \E t \in Users :
    \/ CtxCall(t)
    \/ OnceDo(t)
    \/ InitCreate(t)
    \/ InitGo(t)
    \/ CtxReturn(t)
    \/ CtxAgain(t)

SpecOnce == InitOnce /\ [][NextOnce]_vars

\* C24: at most one epoll context is created and at most one dispatch loop
\* started; a thread to which once.Do has returned finds exactly one of
\* each, phctx pointing to a pollServer with its context and its map; every
\* thread gets that same pollServer, and phctx is never assigned again
C24_OneRegistry ==
  /\ [](nEpolls <= 1 /\ nLoops <= 1)
  /\ [](\A t \in Users :
          ctxPc[t] \in {"ret", "got"} =>
            /\ nEpolls = 1
            /\ nLoops = 1
            /\ runPc = "uwait"
            /\ phctx = NewCtx(1)
            /\ phctx.pollDescs = "map")
  /\ [](\A t \in Users : ctxPc[t] = "got" => ctxGot[t] = phctx)
  /\ [][phctx # NilCtx => phctx' = phctx]_vars

\* every thread has its registry, and not all of them ran the
\* initialisation
C24_Witness ==
  /\ \A t \in Users : ctxPc[t] = "got" /\ ctxGot[t] = NewCtx(1)
  /\ nEpolls = 1
  /\ nLoops = 1

\* ------------------------------------------------------------------------
\* ReadBatch claims (SpecRB)
\* ------------------------------------------------------------------------

\* ReadBatch runs: one socket, registered, read in batches by one caller
\* while the dispatch loop runs; the engine raises readable notices and may
\* break the connection
InitRB == InitWith([live |-> 1, pds |-> 1, ops |-> RBOps, callers |-> 1,
                    notices |-> RBNotices, sockets |-> 0, closes |-> 0, polls |-> 0])

NextRB ==
  \/ \E h \in Handles :
       \/ EngineBreak(h)
       \/ EngineNotify(h, EPOLL_IN)
  \/ \E p \in Pds :
       \/ \E h \in Handles : PollOpenAdd(p, h)
       \/ PollOpenPut(p)
       \/ RBCall(p)
  \/ RunTimeout
  \/ \E S \in SUBSET Handles : RunEvents(S)
  \/ ProcSnapshot
  \/ ProcDispatch
  \/ RBRecv
  \/ RBReset
  \/ RBWait
  \/ RBWake
  \/ RBWaitTimeout
  \/ RBRetry
  \/ RBReturn

SpecRB == InitRB /\ [][NextRB]_vars

\* C28: a ReadBatch with maxPackets <= 0 or an empty buffer returns
\* (0, 0, nil) and has made no engine call; any other returns
\* packetsRead <= maxPackets and totalBytes <= len(buffer), and an error
\* only together with packetsRead = 0 and totalBytes = 0
C28_BatchResult ==
  rb.pc = "done" =>
    IF rb.maxPackets <= 0 \/ rb.buflen = 0
    THEN /\ rb.packetsRead = 0
         /\ rb.totalBytes = 0
         /\ rb.err = NoErr
         /\ rb.attempts = 0
    ELSE /\ rb.packetsRead <= rb.maxPackets
         /\ rb.totalBytes <= rb.buflen
         /\ rb.err # NoErr => (rb.packetsRead = 0 /\ rb.totalBytes = 0)

\* a ReadBatch returns one packet or more and a nil error although its
\* last engine call failed
C28_Witness ==
  /\ rb.pc = "done"
  /\ rb.packetsRead >= 1
  /\ rb.totalBytes >= 1
  /\ rb.last \in EngineErrs
  /\ rb.err = NoErr

\* C29: a ReadBatch calls wait at most once, and only with nothing read yet,
\* on a non-blocking socket whose first receive attempt reported EAsyncRCV;
\* only the first attempt of a call leads to reset and wait; a wait that
\* returns an error ends the call with (0, 0, waitErr) and without another
\* engine call
C29_WaitOnceAtStart ==
  /\ [](/\ rb.waits <= 1
        /\ rb.waits = 1 =>
             (rb.waitAt = 0 /\ ~rb.blocking /\ rb.first = EAsyncRCV))
  /\ [][(rb.pc # "reset" /\ rb'.pc = "reset") =>
          (rb.attempts = 0 /\ rb.packetsRead = 0)]_vars
  /\ [][(rb.pc \in {"wait", "blocked"} /\ rb'.pc \notin {"wait", "blocked", "retry"}) =>
          /\ rb'.pc = "done"
          /\ rb'.waitErr # NoErr
          /\ rb'.packetsRead = 0
          /\ rb'.totalBytes = 0
          /\ rb'.err = rb'.waitErr
          /\ rb'.attempts = rb.attempts]_vars
  /\ []((rb.pc = "done" /\ rb.waitErr # NoErr) => rb.attempts = 1)

\* a ReadBatch waited once, read a packet, met a second would-block and
\* returned without waiting again
C29_Witness ==
  /\ rb.pc = "done"
  /\ rb.waits = 1
  /\ rb.packetsRead >= 1
  /\ rb.last = EAsyncRCV
  /\ rb.err = NoErr

\* ------------------------------------------------------------------------
\* Wrapper claims (SpecWrap)
\* ------------------------------------------------------------------------

\* Wrapper runs: calls of srtRecvMsg2Impl and srtSendMsg2Impl, one after the
\* other, over the results the engine call can have
InitWrap == InitWith([live |-> 1, pds |-> 0, ops |-> WrapCalls, callers |-> 1,
                      notices |-> 0, sockets |-> 0, closes |-> 0, polls |-> 0])

NextWrap ==
  \/ \E kind \in {"recv", "send"}, ret \in -1..MaxBytes,
        lasterror \in EngineErrs, syserror \in SysErrnos :
       WrapCall(kind, ret, lasterror, syserror)
  \/ WrapReturn

SpecWrap == InitWrap /\ [][NextWrap]_vars

\* C30: a wrapper call whose engine call returned a negative result returns
\* n = 0 and a non-nil error that carries the engine's error code and that
\* wraps the system error code exactly when that code is negative; one whose
\* engine call returned a count returns that count and a nil error
C30_WrapperResult ==
  wcall.pc = "done" =>
    IF wcall.io.ret < 0
    THEN /\ wcall.n = 0
         /\ wcall.err # NilError
         /\ wcall.err.e = wcall.io.srterr
         /\ (wcall.err.eSys # 0) <=> (wcall.io.syserr < 0)
         /\ wcall.io.syserr < 0 =>
              wcall.err = wrapSysErr(SRTErrno(wcall.io.srterr), wcall.io.syserr)
    ELSE /\ wcall.n = wcall.io.ret
         /\ wcall.err = NilError

\* ------------------------------------------------------------------------
\* Log-handler claims (SpecLog)
\* ------------------------------------------------------------------------

\* Log-handler runs: threads that set and unset the log handler side by
\* side while the engine logs
InitLog == InitWith([live |-> 0, pds |-> 0, ops |-> LogCalls, callers |-> 0,
                     notices |-> 0, sockets |-> 0, closes |-> 0, polls |-> 0])

NextLog ==
  \/ \E t \in Loggers :
       \/ LogSave(t)
       \/ LogInstall(t)
       \/ LogUninstall(t)
       \/ LogStoreLock(t)
       \/ LogStore(t)
  \/ LogCallback

SpecLog == InitLog /\ [][NextLog]_vars

\* C31: the token the engine holds as its log handler has not been Unref'd,
\* and whenever no SrtSetLogHandler / SrtUnsetLogHandler call is under way
\* it is the token stored in logCBPtr
C31_HandlerNotReleased ==
  /\ logHandler # NilPtr => logHandler \in logSaved
  /\ (\A t \in Loggers : logPc[t] = "idle") => logHandler = logCBPtr

====
